---- MODULE Spec2Model ----
(***************************************************************************)
(* A model of adapter.py: the IFC STEP -> BOT A-box (Turtle) adapter.      *)
(* Text, names and RDF terms are sequences of one-character strings, so    *)
(* that scanning, escaping and rendering are computed rather than assumed. *)
(***************************************************************************)
EXTENDS Integers, Sequences, FiniteSets, TLC

VARIABLES
    entities,       \* ifc_to_bot_triples: the entity mapping, in dict order
    ent_idx,        \* ifc_to_bot_triples: entities consumed by the 4.1 loop
    rel,            \* ifc_to_bot_triples: the 4.2 loop variable (<<>> before the loop)
    rel_count,      \* ifc_to_bot_triples: relationships consumed by the 4.2 loop
    triples,        \* ifc_to_bot_triples: the result list
    rel_base,       \* Len(triples) when the current relationship was picked up
    map_status      \* "running" | "returned" | "raised"

VARIABLES
    ttl_in,         \* triples_to_ttl: the triples argument
    lines,          \* triples_to_ttl: the list of output lines
    by_subject,     \* triples_to_ttl: subject -> [(p, o)], in dict order
    grp_idx,        \* triples_to_ttl: triples consumed by the grouping loop
    st_idx,         \* triples_to_ttl: subjects rendered by the stanza loop
    ttl_out,        \* triples_to_ttl: the returned text
    ttl_pc          \* "group" | "render" | "done"

VARIABLES
    pieces,         \* the records the source text was assembled from
    ifc_text,       \* scan_ifc_and_extract_lines: the source text
    scan_pos,       \* finditer: where the next search starts
    selected,       \* scan_ifc_and_extract_lines: results
    parse_idx,      \* parse_selected_ifc_lines: lines consumed
    parsed_entities,        \* parse_selected_ifc_lines: entities, in dict order
    parsed_relationships,   \* parse_selected_ifc_lines: relationships
    scan_pc         \* "scan" | "parse" | "done"

VARIABLES
    conv_pc,        \* convert_ifc_file_to_ttl: where the run is
    conv_text,      \* the text read from ifc_path
    conv_ttl,       \* ttl_output
    out_file0,      \* the file at ttl_path before the run
    out_file        \* the file at ttl_path

mapVars == <<entities, ent_idx, rel, rel_count, triples, rel_base, map_status>>
ttlVars == <<ttl_in, lines, by_subject, grp_idx, st_idx, ttl_out, ttl_pc>>
scanVars == <<pieces, ifc_text, scan_pos, selected, parse_idx, parsed_entities,
              parsed_relationships, scan_pc>>
convVars == <<conv_pc, conv_text, conv_ttl, out_file0, out_file>>

vars == <<mapVars, ttlVars, scanVars, convVars>>

(* ------------------------------ bounds -------------------------------- *)

MaxChildren == 3     \* child references of one relationship
MaxRels == 1         \* relationships of one ifc_to_bot_triples call
MaxTriples == 3      \* triples of one triples_to_ttl call
MaxPieces == 2       \* records of one source text

(* ------------------------- STEP 1: the registry ----------------------- *)

IFC_TO_BOT_ZONE ==
    ("IFCSITE" :> "bot:Site") @@ ("IFCBUILDING" :> "bot:Building") @@
    ("IFCBUILDINGSTOREY" :> "bot:Storey") @@ ("IFCSPACE" :> "bot:Space")

IFC_TO_BOT_ELEMENT ==
    [t \in {"IFCWALL", "IFCWALLSTANDARDCASE", "IFCSLAB", "IFCBEAM", "IFCCOLUMN",
            "IFCDOOR", "IFCWINDOW", "IFCPLATE", "IFCFURNISHINGELEMENT",
            "IFCSTAIR", "IFCSTAIRFLIGHT", "IFCFLOWTERMINAL"} |-> "bot:Element"]

IFC_REL_TO_BOT_PROP ==
    ("IFCRELAGGREGATES" :> "bot:containsZone_or_hasSubElement") @@
    ("IFCRELCONTAINEDINSPATIALSTRUCTURE" :> "bot:containsElement") @@
    ("IFCRELCONNECTSELEMENTS" :> "bot:adjacentElement") @@
    ("IFCRELINTERFERESELEMENTS" :> "bot:intersectingElement")

IFC_TYPES_OF_INTEREST ==
    DOMAIN IFC_TO_BOT_ZONE \cup DOMAIN IFC_TO_BOT_ELEMENT
        \cup DOMAIN IFC_REL_TO_BOT_PROP \cup {"IFCPROJECT"}

(* ------------------------------ strings ------------------------------- *)

DigitChars == <<"0", "1", "2", "3", "4", "5", "6", "7", "8", "9">>

\* str(n) of a non-negative int, as the f-strings render it
RECURSIVE IntToStr(_)
IntToStr(n) ==
    IF n < 10 THEN <<DigitChars[n + 1]>>
    ELSE IntToStr(n \div 10) \o <<DigitChars[(n % 10) + 1]>>

\* the Python str made of the characters s
RECURSIVE Str(_)
Str(s) == IF s = <<>> THEN "" ELSE Head(s) \o Str(Tail(s))

\* f"ex:inst_{ent_id}"
InstCurie(id) == "ex:inst_" \o Str(IntToStr(id))

\* name.replace('"', '\\"')
RECURSIVE EscapeQuotes(_)
EscapeQuotes(s) ==
    IF s = <<>> THEN <<>>
    ELSE (IF Head(s) = "\"" THEN <<"\\", "\"">> ELSE <<Head(s)>>)
            \o EscapeQuotes(Tail(s))

\* f"\"{safe_name}\""
QuotedLiteral(name) == "\"" \o Str(EscapeQuotes(name)) \o "\""

(* ---------------------- STEP 4: the mapping engine -------------------- *)

IfcEntity(ent_id, ent_type, name, global_id) ==
    [id |-> ent_id, type |-> ent_type, name |-> name, global_id |-> global_id]

IfcRelationship(rel_id, rel_type, parent_id, child_ids) ==
    [id |-> rel_id, type |-> rel_type, parent_id |-> parent_id, child_ids |-> child_ids]

\* entities.get(ifc_id): the entities stored under the id (none or one)
EntitiesGet(ents, ifc_id) == {ents[k] : k \in {j \in DOMAIN ents : ents[j].id = ifc_id}}

classify_ifc_entity(ent) ==
    IF ent.type \in DOMAIN IFC_TO_BOT_ZONE THEN IFC_TO_BOT_ZONE[ent.type]
    ELSE IF ent.type \in DOMAIN IFC_TO_BOT_ELEMENT THEN IFC_TO_BOT_ELEMENT[ent.type]
    ELSE "None"

is_zone_id(ents, ifc_id) ==
    \E e \in EntitiesGet(ents, ifc_id) : e.type \in DOMAIN IFC_TO_BOT_ZONE

is_element_id(ents, ifc_id) ==
    \E e \in EntitiesGet(ents, ifc_id) : e.type \in DOMAIN IFC_TO_BOT_ELEMENT

\* mutant of EntityTriples: the label triple is emitted for an empty name too
EntityTriplesLabelAlways(ent) ==
    LET bot_class == classify_ifc_entity(ent)
        subj == InstCurie(ent.id)
    IN  IF bot_class = "None" THEN <<>>
        ELSE << <<subj, "rdf:type", bot_class>>,
                <<subj, "rdfs:label", QuotedLiteral(ent.name)>> >>

\* one iteration of the 4.1 loop: the triples appended for one entity
EntityTriples(ent) ==
    LET bot_class == classify_ifc_entity(ent)
        subj == InstCurie(ent.id)
    IN  IF bot_class = "None" THEN <<>>
        ELSE << <<subj, "rdf:type", bot_class>> >>
             \o (IF ent.name # <<>>
                 THEN <<<<subj, "rdfs:label", QuotedLiteral(ent.name)>>>>
                 ELSE <<>>)

\* mutant of AggregatesPair: the zone branch does not look at the child
AggregatesPairAnyChild(ents, parent_id, cid) ==
    IF is_zone_id(ents, parent_id)
    THEN <<<<InstCurie(parent_id), "bot:containsZone", InstCurie(cid)>>>>
    ELSE IF is_element_id(ents, parent_id) /\ is_element_id(ents, cid)
    THEN <<<<InstCurie(parent_id), "bot:hasSubElement", InstCurie(cid)>>>>
    ELSE <<>>

\* the body of "for cid, child_curie in zip(...)" of IFCRELAGGREGATES
AggregatesPair(ents, parent_id, cid) ==
    IF is_zone_id(ents, parent_id) /\ is_zone_id(ents, cid)
    THEN <<<<InstCurie(parent_id), "bot:containsZone", InstCurie(cid)>>>>
    ELSE IF is_element_id(ents, parent_id) /\ is_element_id(ents, cid)
    THEN <<<<InstCurie(parent_id), "bot:hasSubElement", InstCurie(cid)>>>>
    ELSE <<>>

\* mutant of ContainedPair: the child is not required to be an element
ContainedPairAnyChild(ents, parent_id, cid) ==
    IF is_zone_id(ents, parent_id)
    THEN <<<<InstCurie(parent_id), "bot:containsElement", InstCurie(cid)>>>>
    ELSE <<>>

\* the body of the loop of IFCRELCONTAINEDINSPATIALSTRUCTURE
ContainedPair(ents, parent_id, cid) ==
    IF is_zone_id(ents, parent_id) /\ is_element_id(ents, cid)
    THEN <<<<InstCurie(parent_id), "bot:containsElement", InstCurie(cid)>>>>
    ELSE <<>>

\* mutant of ArityIsTwo: the guard reads "len(child_ids) >= 2"
ArityAtLeastTwo(child_ids) == Len(child_ids) >= 2

\* the guard "len(child_ids) == 2" of the two symmetric relation types
ArityIsTwo(child_ids) == Len(child_ids) = 2

\* mutant of SymmetricPair: the second append, (b, prop, a), is missing
SymmetricPairOneWay(ents, child_ids, prop) ==
    IF Len(child_ids) = 2
          /\ is_element_id(ents, child_ids[1]) /\ is_element_id(ents, child_ids[2])
    THEN [raised |-> FALSE,
          out |-> << <<InstCurie(child_ids[1]), prop, InstCurie(child_ids[2])>> >>]
    ELSE [raised |-> FALSE, out |-> <<>>]

\* the symmetric branch: [raised, out]; "a_id, b_id = child_ids" raises
\* ValueError when the list does not hold exactly two ids
SymmetricPair(ents, child_ids, prop) ==
    IF ArityIsTwo(child_ids)
    THEN IF Len(child_ids) # 2
         THEN [raised |-> TRUE, out |-> <<>>]
         ELSE LET a_id == child_ids[1]
                  b_id == child_ids[2]
              IN  IF is_element_id(ents, a_id) /\ is_element_id(ents, b_id)
                  THEN [raised |-> FALSE,
                        out |-> << <<InstCurie(a_id), prop, InstCurie(b_id)>>,
                                   <<InstCurie(b_id), prop, InstCurie(a_id)>> >>]
                  ELSE [raised |-> FALSE, out |-> <<>>]
    ELSE [raised |-> FALSE, out |-> <<>>]

\* "for cid, child_curie in zip(child_ids, children_curie)" of IFCRELAGGREGATES
RECURSIVE AggregatesLoop(_, _, _)
AggregatesLoop(ents, parent_id, child_ids) ==
    IF child_ids = <<>> THEN <<>>
    ELSE AggregatesPair(ents, parent_id, Head(child_ids))
            \o AggregatesLoop(ents, parent_id, Tail(child_ids))

\* the same loop of IFCRELCONTAINEDINSPATIALSTRUCTURE
RECURSIVE ContainedLoop(_, _, _)
ContainedLoop(ents, parent_id, child_ids) ==
    IF child_ids = <<>> THEN <<>>
    ELSE ContainedPair(ents, parent_id, Head(child_ids))
            \o ContainedLoop(ents, parent_id, Tail(child_ids))

\* one iteration of the 4.2 loop: [raised, out]
RelTriples(ents, r) ==
    IF r.type = "IFCRELAGGREGATES"
    THEN [raised |-> FALSE,
          out |-> AggregatesLoop(ents, r.parent_id, r.child_ids)]
    ELSE IF r.type = "IFCRELCONTAINEDINSPATIALSTRUCTURE"
    THEN [raised |-> FALSE,
          out |-> ContainedLoop(ents, r.parent_id, r.child_ids)]
    ELSE IF r.type = "IFCRELCONNECTSELEMENTS"
    THEN SymmetricPair(ents, r.child_ids, "bot:adjacentElement")
    ELSE IF r.type = "IFCRELINTERFERESELEMENTS"
    THEN SymmetricPair(ents, r.child_ids, "bot:intersectingElement")
    ELSE [raised |-> FALSE, out |-> <<>>]

(* --------------------- inputs of the mapping engine ------------------- *)

\* two ids, each of which may be absent from the mapping
Ids == {1, 2}

\* one zone type, one element type and the root type; an empty name and a
\* name that holds a double quote
SampleEntityTypes == {"IFCSITE", "IFCWALL", "IFCPROJECT"}
SampleNames == {<<>>, <<"N", "\"">>}
SampleEntities ==
    [id : Ids, type : SampleEntityTypes, name : SampleNames, global_id : {<<"G">>}]

SeqsUpTo(S, n) == UNION {[1 .. k -> S] : k \in 0 .. n}

\* entity mappings: every id at most once; the dict order is that of the ids
\* (the other order of two entries is this one with the two ids exchanged)
EntityMaps ==
    {m \in SeqsUpTo(SampleEntities, Cardinality(Ids)) :
        \A a, b \in DOMAIN m : a < b => m[a].id < m[b].id}

Relationships ==
    [id : {100}, type : DOMAIN IFC_REL_TO_BOT_PROP, parent_id : Ids,
     child_ids : SeqsUpTo(Ids, MaxChildren)]

(* ------------------- ifc_to_bot_triples as a machine ------------------ *)

MapStart ==
    /\ entities \in EntityMaps
    /\ ent_idx = 0
    /\ rel = <<>>
    /\ rel_count = 0
    /\ triples = <<>>
    /\ rel_base = 0
    /\ map_status = "running"

\* 4.1: one iteration of "for ent_id, ent in entities.items()"
TypeAndLabel ==
    /\ map_status = "running"
    /\ ent_idx < Len(entities)
    /\ ent_idx' = ent_idx + 1
    /\ triples' = triples \o EntityTriples(entities[ent_idx + 1])
    /\ rel_base' = Len(triples')
    /\ UNCHANGED <<entities, rel, rel_count, map_status>>
    /\ UNCHANGED <<ttlVars, scanVars, convVars>>

\* 4.2: one iteration of "for rel in relationships"
MapRelationship ==
    /\ map_status = "running"
    /\ ent_idx = Len(entities)
    /\ rel_count < MaxRels
    /\ \E r \in Relationships :
          LET res == RelTriples(entities, r)
          IN  /\ rel' = r
              /\ rel_count' = rel_count + 1
              /\ rel_base' = Len(triples)
              /\ triples' = triples \o res.out
              /\ map_status' = IF res.raised THEN "raised" ELSE "running"
    /\ UNCHANGED <<entities, ent_idx>>
    /\ UNCHANGED <<ttlVars, scanVars, convVars>>

\* "return triples"
MapReturn ==
    /\ map_status = "running"
    /\ ent_idx = Len(entities)
    /\ map_status' = "returned"
    /\ UNCHANGED <<entities, ent_idx, rel, rel_count, triples, rel_base>>
    /\ UNCHANGED <<ttlVars, scanVars, convVars>>

\* the two loops of ifc_to_bot_triples, start to end
RECURSIVE AllEntityTriples(_)
AllEntityTriples(ents) ==
    IF ents = <<>> THEN <<>>
    ELSE EntityTriples(Head(ents)) \o AllEntityTriples(Tail(ents))

RECURSIVE AllRelTriples(_, _)
AllRelTriples(ents, rels) ==
    IF rels = <<>> THEN <<>>
    ELSE RelTriples(ents, Head(rels)).out \o AllRelTriples(ents, Tail(rels))

ifc_to_bot_triples(ents, rels) == AllEntityTriples(ents) \o AllRelTriples(ents, rels)

(* ---------------------------- the serializer -------------------------- *)

\* a line is the sequence of the pieces its f-string concatenates; '' is <<>>
PrefixBlock ==
    << <<"@prefix rdf:  <http://www.w3.org/1999/02/22-rdf-syntax-ns#> .">>,
       <<"@prefix rdfs: <http://www.w3.org/2000/01/rdf-schema#> .">>,
       <<"@prefix bot:  <https://w3id.org/bot#> .">>,
       <<"@prefix ex:   <http://example.com/instances#> .">>,
       <<>> >>

\* mutant of AppendPair: a new subject is put in front of the older ones
AppendPairFront(bs, s, p, o) ==
    IF \E k \in DOMAIN bs : bs[k].subj = s
    THEN LET k == CHOOSE j \in DOMAIN bs : bs[j].subj = s
         IN  [bs EXCEPT ![k].props = Append(@, <<p, o>>)]
    ELSE <<[subj |-> s, props |-> << <<p, o>> >>]>> \o bs

\* mutant of AppendPair: a pair the subject already holds is not added again
AppendPairDedup(bs, s, p, o) ==
    IF \E k \in DOMAIN bs : bs[k].subj = s
    THEN LET k == CHOOSE j \in DOMAIN bs : bs[j].subj = s
         IN  IF \E i \in DOMAIN bs[k].props : bs[k].props[i] = <<p, o>>
             THEN bs
             ELSE [bs EXCEPT ![k].props = Append(@, <<p, o>>)]
    ELSE Append(bs, [subj |-> s, props |-> << <<p, o>> >>])

\* by_subject[s].append((p, o)) on a defaultdict(list)
AppendPair(bs, s, p, o) ==
    IF \E k \in DOMAIN bs : bs[k].subj = s
    THEN LET k == CHOOSE j \in DOMAIN bs : bs[j].subj = s
         IN  [bs EXCEPT ![k].props = Append(@, <<p, o>>)]
    ELSE Append(bs, [subj |-> s, props |-> << <<p, o>> >>])

\* sep = " ;" if i < len(props) - 1 else " ."   (i counts from 0)
Separator(i, n) == IF i < n - 1 THEN " ;" ELSE " ."

\* the lines appended for one item of by_subject
StanzaLines(entry) ==
    << <<entry.subj>> >>
    \o [i \in 1 .. Len(entry.props) |->
           <<"    ", entry.props[i][1], " ", entry.props[i][2],
             Separator(i - 1, Len(entry.props))>>]
    \o << <<>> >>

\* "\n".join(lines)
RECURSIVE JoinLines(_)
JoinLines(ls) ==
    IF ls = <<>> THEN <<>>
    ELSE IF Len(ls) = 1 THEN ls[1]
    ELSE ls[1] \o <<"\n">> \o JoinLines(Tail(ls))

RECURSIVE GroupAll(_, _)
GroupAll(bs, ts) ==
    IF ts = <<>> THEN bs
    ELSE GroupAll(AppendPair(bs, Head(ts)[1], Head(ts)[2], Head(ts)[3]), Tail(ts))

RECURSIVE AllStanzas(_)
AllStanzas(bs) ==
    IF bs = <<>> THEN <<>> ELSE StanzaLines(Head(bs)) \o AllStanzas(Tail(bs))

triples_to_ttl(ts) == JoinLines(PrefixBlock \o AllStanzas(GroupAll(<<>>, ts)))

\* triples as the mapping engine emits them: two subjects, a class, a label
\* with a space in it and an instance as objects
SampleTriples ==
    {<<s, p, o>> : s \in {InstCurie(1), InstCurie(2)},
                   p \in {"rdf:type", "bot:containsZone"},
                   o \in {"bot:Site", InstCurie(2)}}

TtlStart ==
    /\ ttl_in \in SeqsUpTo(SampleTriples, MaxTriples)
    /\ lines = PrefixBlock
    /\ by_subject = <<>>
    /\ grp_idx = 0
    /\ st_idx = 0
    /\ ttl_out = <<>>
    /\ ttl_pc = "group"

\* one iteration of "for s, p, o in triples"
GroupTriple ==
    /\ ttl_pc = "group"
    /\ grp_idx < Len(ttl_in)
    /\ LET t == ttl_in[grp_idx + 1]
       IN  by_subject' = AppendPair(by_subject, t[1], t[2], t[3])
    /\ grp_idx' = grp_idx + 1
    /\ UNCHANGED <<ttl_in, lines, st_idx, ttl_out, ttl_pc>>
    /\ UNCHANGED <<mapVars, scanVars, convVars>>

\* one iteration of "for subj, props in by_subject.items()"
RenderStanza ==
    /\ \/ ttl_pc = "group" /\ grp_idx = Len(ttl_in)
       \/ ttl_pc = "render"
    /\ st_idx < Len(by_subject)
    /\ lines' = lines \o StanzaLines(by_subject[st_idx + 1])
    /\ st_idx' = st_idx + 1
    /\ ttl_pc' = "render"
    /\ UNCHANGED <<ttl_in, by_subject, grp_idx, ttl_out>>
    /\ UNCHANGED <<mapVars, scanVars, convVars>>

\* return "\n".join(lines)
TtlReturn ==
    /\ \/ ttl_pc = "group" /\ grp_idx = Len(ttl_in)
       \/ ttl_pc = "render"
    /\ st_idx = Len(by_subject)
    /\ ttl_out' = JoinLines(lines)
    /\ ttl_pc' = "done"
    /\ UNCHANGED <<ttl_in, lines, by_subject, grp_idx, st_idx>>
    /\ UNCHANGED <<mapVars, scanVars, convVars>>

(* ------------------- STEP 2: the record selector ---------------------- *)

LowerChars ==
    <<"a", "b", "c", "d", "e", "f", "g", "h", "i", "j", "k", "l", "m", "n", "o",
      "p", "q", "r", "s", "t", "u", "v", "w", "x", "y", "z">>
UpperChars ==
    <<"A", "B", "C", "D", "E", "F", "G", "H", "I", "J", "K", "L", "M", "N", "O",
      "P", "Q", "R", "S", "T", "U", "V", "W", "X", "Y", "Z">>

Range(f) == {f[k] : k \in DOMAIN f}

\* the classes \d, \s and \w of the patterns
DigitClass == Range(DigitChars)
SpaceClass == {" ", "\t", "\n", "\r", "\f"}
WordClass == Range(DigitChars) \cup Range(LowerChars) \cup Range(UpperChars) \cup {"_"}

\* str.upper(), one character
UpperChar(c) ==
    IF c \in Range(LowerChars)
    THEN UpperChars[CHOOSE k \in DOMAIN LowerChars : LowerChars[k] = c]
    ELSE c

\* ent_type_raw.upper()
Upper(s) == Str([k \in DOMAIN s |-> UpperChar(s[k])])

\* int(ent_id_str)
RECURSIVE StrToInt(_)
StrToInt(s) ==
    IF s = <<>> THEN 0
    ELSE 10 * StrToInt(SubSeq(s, 1, Len(s) - 1))
            + ((CHOOSE k \in DOMAIN DigitChars : DigitChars[k] = s[Len(s)]) - 1)

\* where a greedy run of characters of a class that starts at i ends: the
\* first position from i on that is past the text or not in the class
RECURSIVE SpanEnd(_, _, _)
SpanEnd(class, t, i) ==
    IF i <= Len(t) /\ t[i] \in class THEN SpanEnd(class, t, i + 1) ELSE i

\* the lazy "(.*?)\);" under DOTALL: the first ");" from i on (0: none)
RECURSIVE FindClose(_, _)
FindClose(t, i) ==
    IF i + 1 > Len(t) THEN 0
    ELSE IF t[i] = ")" /\ t[i + 1] = ";" THEN i
    ELSE FindClose(t, i + 1)

\* the pattern  #(\d+)\s*=\s*(\w+)\s*\((.*?)\);  anchored at position i:
\* <<>> or <<the match>>
MatchAt(t, i) ==
    LET d  == SpanEnd(DigitClass, t, i + 1)
        eq == SpanEnd(SpaceClass, t, d)
        w  == SpanEnd(SpaceClass, t, eq + 1)
        we == SpanEnd(WordClass, t, w)
        op == SpanEnd(SpaceClass, t, we)
        cl == FindClose(t, op + 1)
    IN  IF /\ i <= Len(t) /\ t[i] = "#"
           /\ d > i + 1
           /\ eq <= Len(t) /\ t[eq] = "="
           /\ we > w
           /\ op <= Len(t) /\ t[op] = "("
           /\ cl # 0
        THEN << [ent_id_str |-> SubSeq(t, i + 1, d - 1),
                 ent_type_raw |-> SubSeq(t, w, we - 1),
                 args_str |-> SubSeq(t, op + 1, cl - 1),
                 end |-> cl + 2] >>
        ELSE <<>>

\* finditer: the first position from pos on where the pattern matches (0: none)
RECURSIVE FindNext(_, _)
FindNext(t, pos) ==
    IF pos > Len(t) THEN 0
    ELSE IF MatchAt(t, pos) # <<>> THEN pos
    ELSE FindNext(t, pos + 1)

\* the body of "for match in pattern.finditer(ifc_text)"
ScanResults(results, m) ==
    LET ent_id == StrToInt(m.ent_id_str)
        ent_type == Upper(m.ent_type_raw)
    IN  IF ent_type \in IFC_TYPES_OF_INTEREST
        THEN Append(results, <<ent_id, ent_type, m.args_str>>)
        ELSE results

RECURSIVE ScanFrom(_, _, _)
ScanFrom(t, pos, results) ==
    LET i == FindNext(t, pos)
    IN  IF i = 0 THEN results
        ELSE LET m == MatchAt(t, i)[1]
             IN  ScanFrom(t, m.end, ScanResults(results, m))

scan_ifc_and_extract_lines(t) == ScanFrom(t, 1, <<>>)

(* --------------------- STEP 3: the record parser ---------------------- *)

\* the closing quote of "[^']*'": the first quote from i on (0: none)
RECURSIVE NextQuote(_, _)
NextQuote(a, i) ==
    IF i > Len(a) THEN 0
    ELSE IF a[i] = "'" THEN i
    ELSE NextQuote(a, i + 1)

\* mutant of ArgsMatch: leading whitespace is skipped before the pattern
ArgsMatchAfterSpace(a) ==
    LET q1 == SpanEnd(SpaceClass, a, 1)
        q2 == NextQuote(a, q1 + 1)
        c  == SpanEnd(SpaceClass, a, q2 + 1)
        q3 == SpanEnd(SpaceClass, a, c + 1)
        q4 == NextQuote(a, q3 + 1)
    IN  IF /\ q1 <= Len(a) /\ a[q1] = "'"
           /\ q2 # 0
           /\ c <= Len(a) /\ a[c] = ","
           /\ q3 <= Len(a) /\ a[q3] = "'"
           /\ q4 # 0
        THEN <<SubSeq(a, q1 + 1, q2 - 1), SubSeq(a, q3 + 1, q4 - 1)>>
        ELSE <<>>

\* re.match(r"'([^']*)'\s*,\s*'([^']*)'", args_str): <<>> or <<group 1, group 2>>
ArgsMatch(a) ==
    LET q2 == NextQuote(a, 2)
        c  == SpanEnd(SpaceClass, a, q2 + 1)
        q3 == SpanEnd(SpaceClass, a, c + 1)
        q4 == NextQuote(a, q3 + 1)
    IN  IF /\ Len(a) >= 1 /\ a[1] = "'"
           /\ q2 # 0
           /\ c <= Len(a) /\ a[c] = ","
           /\ q3 <= Len(a) /\ a[q3] = "'"
           /\ q4 # 0
        THEN <<SubSeq(a, 2, q2 - 1), SubSeq(a, q3 + 1, q4 - 1)>>
        ELSE <<>>

\* re.findall(r"#(\d+)", args_str), each converted with int()
RECURSIVE FindAllRefs(_, _)
FindAllRefs(a, i) ==
    IF i > Len(a) THEN <<>>
    ELSE LET d == SpanEnd(DigitClass, a, i + 1)
         IN  IF a[i] = "#" /\ d > i + 1
             THEN <<StrToInt(SubSeq(a, i + 1, d - 1))>> \o FindAllRefs(a, d)
             ELSE FindAllRefs(a, i + 1)

\* entities[ent_id] = ent: a key already there keeps its place in the dict
DictSet(ents, ent) ==
    IF \E k \in DOMAIN ents : ents[k].id = ent.id
    THEN [k \in DOMAIN ents |-> IF ents[k].id = ent.id THEN ent ELSE ents[k]]
    ELSE Append(ents, ent)

\* the body of "for ent_id, ent_type, args_str in lines": [entities, relationships]
ParseLine(acc, line) ==
    LET ent_id == line[1]
        ent_type == line[2]
        args_str == line[3]
    IN  IF \/ ent_type \in DOMAIN IFC_TO_BOT_ZONE
           \/ ent_type \in DOMAIN IFC_TO_BOT_ELEMENT
           \/ ent_type = "IFCPROJECT"
        THEN LET m_args == ArgsMatch(args_str)
                 global_id == IF m_args # <<>> THEN m_args[1] ELSE <<>>
                 name == IF m_args # <<>> THEN m_args[2] ELSE <<>>
             IN  [acc EXCEPT !.entities =
                      DictSet(@, IfcEntity(ent_id, ent_type, name, global_id))]
        ELSE IF ent_type \in DOMAIN IFC_REL_TO_BOT_PROP
        THEN LET nums == FindAllRefs(args_str, 1)
             IN  IF Len(nums) >= 2
                 THEN [acc EXCEPT !.relationships =
                          Append(@, IfcRelationship(ent_id, ent_type, nums[1], Tail(nums)))]
                 ELSE acc
        ELSE acc

RECURSIVE ParseFrom(_, _)
ParseFrom(acc, ls) ==
    IF ls = <<>> THEN acc ELSE ParseFrom(ParseLine(acc, Head(ls)), Tail(ls))

parse_selected_ifc_lines(ls) == ParseFrom([entities |-> <<>>, relationships |-> <<>>], ls)

(* ----------------------------- source texts --------------------------- *)

\* #1=IFCWALL('G','N"');\n
RecWall ==
    <<"#", "1", "=", "I", "F", "C", "W", "A", "L", "L", "(", "'", "G", "'", ",",
    "'", "N", "\"", "'", ")", ";", "\n">>

\* #2 = ifcsite( 'H','S');\n
RecSite ==
    <<"#", "2", " ", "=", " ", "i", "f", "c", "s", "i", "t", "e", "(", " ", "'",
    "H", "'", ",", "'", "S", "'", ")", ";", "\n">>

\* #3=IFCDOOR('D',#5,'R');\n
RecDoor ==
    <<"#", "3", "=", "I", "F", "C", "D", "O", "O", "R", "(", "'", "D", "'", ",",
    "#", "5", ",", "'", "R", "'", ")", ";", "\n">>

\* #1=IFCPROJECT('P' , 'J',$);\n
RecProject ==
    <<"#", "1", "=", "I", "F", "C", "P", "R", "O", "J", "E", "C", "T", "(", "'",
    "P", "'", " ", ",", " ", "'", "J", "'", ",", "$", ")", ";", "\n">>

\* #8=IFCCOLUMN('C');\n
RecColumn ==
    <<"#", "8", "=", "I", "F", "C", "C", "O", "L", "U", "M", "N", "(", "'", "C",
    "'", ")", ";", "\n">>

\* #9=IFCRELAGGREGATES('X',$,#2,(#2,#3));\n
RecAggregates ==
    <<"#", "9", "=", "I", "F", "C", "R", "E", "L", "A", "G", "G", "R", "E", "G",
    "A", "T", "E", "S", "(", "'", "X", "'", ",", "$", ",", "#", "2", ",", "(",
    "#", "2", ",", "#", "3", ")", ")", ";", "\n">>

\* #10=IFCRELCONTAINEDINSPATIALSTRUCTURE($,#2,\n(#1,#3));\n
RecContained ==
    <<"#", "1", "0", "=", "I", "F", "C", "R", "E", "L", "C", "O", "N", "T", "A",
    "I", "N", "E", "D", "I", "N", "S", "P", "A", "T", "I", "A", "L", "S", "T",
    "R", "U", "C", "T", "U", "R", "E", "(", "$", ",", "#", "2", ",", "\n", "(",
    "#", "1", ",", "#", "3", ")", ")", ";", "\n">>

\* #7=IFCPOINT(0);\n
RecPoint ==
    <<"#", "7", "=", "I", "F", "C", "P", "O", "I", "N", "T", "(", "0", ")", ";",
    "\n">>

\* #4=IFCWALL('U','T')\n
RecUnterminated ==
    <<"#", "4", "=", "I", "F", "C", "W", "A", "L", "L", "(", "'", "U", "'", ",",
    "'", "T", "'", ")", "\n">>

\* #6=IFCSLAB('B','L';\n
RecUnbalanced ==
    <<"#", "6", "=", "I", "F", "C", "S", "L", "A", "B", "(", "'", "B", "'", ",",
    "'", "L", "'", ";", "\n">>

\* records with their own closing ");" and records without it
WellFormedRecords ==
    {RecWall, RecSite, RecDoor, RecProject, RecColumn, RecAggregates,
     RecContained, RecPoint}
MalformedRecords == {RecUnterminated, RecUnbalanced}
SampleRecords == WellFormedRecords \cup MalformedRecords

RECURSIVE Flatten(_)
Flatten(ps) == IF ps = <<>> THEN <<>> ELSE Head(ps) \o Flatten(Tail(ps))

SourceTexts == SeqsUpTo(SampleRecords, MaxPieces)

(* --------------- selector and parser as a machine --------------------- *)

ScanStart ==
    /\ pieces \in SourceTexts
    /\ ifc_text = Flatten(pieces)
    /\ scan_pos = 1
    /\ selected = <<>>
    /\ parse_idx = 0
    /\ parsed_entities = <<>>
    /\ parsed_relationships = <<>>
    /\ scan_pc = "scan"

\* one iteration of "for match in pattern.finditer(ifc_text)"
ScanMatch ==
    /\ scan_pc = "scan"
    /\ FindNext(ifc_text, scan_pos) # 0
    /\ LET m == MatchAt(ifc_text, FindNext(ifc_text, scan_pos))[1]
       IN  /\ selected' = ScanResults(selected, m)
           /\ scan_pos' = m.end
    /\ UNCHANGED <<pieces, ifc_text, parse_idx, parsed_entities,
                   parsed_relationships, scan_pc>>
    /\ UNCHANGED <<mapVars, ttlVars, convVars>>

\* finditer is exhausted: "return results"
ScanReturn ==
    /\ scan_pc = "scan"
    /\ FindNext(ifc_text, scan_pos) = 0
    /\ scan_pc' = "parse"
    /\ UNCHANGED <<pieces, ifc_text, scan_pos, selected, parse_idx,
                   parsed_entities, parsed_relationships>>
    /\ UNCHANGED <<mapVars, ttlVars, convVars>>

\* one iteration of "for ent_id, ent_type, args_str in lines"
ParseStep ==
    /\ scan_pc = "parse"
    /\ parse_idx < Len(selected)
    /\ LET acc == ParseLine([entities |-> parsed_entities,
                             relationships |-> parsed_relationships],
                            selected[parse_idx + 1])
       IN  /\ parsed_entities' = acc.entities
           /\ parsed_relationships' = acc.relationships
    /\ parse_idx' = parse_idx + 1
    /\ UNCHANGED <<pieces, ifc_text, scan_pos, selected, scan_pc>>
    /\ UNCHANGED <<mapVars, ttlVars, convVars>>

\* "return entities, relationships"
ParseReturn ==
    /\ scan_pc = "parse"
    /\ parse_idx = Len(selected)
    /\ scan_pc' = "done"
    /\ UNCHANGED <<pieces, ifc_text, scan_pos, selected, parse_idx,
                   parsed_entities, parsed_relationships>>
    /\ UNCHANGED <<mapVars, ttlVars, convVars>>

(* --------------------- convert_ifc_file_to_ttl ------------------------ *)

\* steps 2 to 4 and the rendering, as convert_ifc_file_to_ttl chains them
Pipeline(text) ==
    LET parsed == parse_selected_ifc_lines(scan_ifc_and_extract_lines(text))
    IN  triples_to_ttl(ifc_to_bot_triples(parsed.entities, parsed.relationships))

\* the file at ttl_path: absent, or present with its content
NoFile == [exists |-> FALSE, content |-> <<>>]
FileWith(content) == [exists |-> TRUE, content |-> content]

ConvStart ==
    /\ conv_pc = "start"
    /\ conv_text = <<>>
    /\ conv_ttl = <<>>
    /\ out_file0 \in {NoFile, FileWith(<<"old">>)}
    /\ out_file = out_file0

\* open(ifc_path, "r", errors="ignore") and f.read() succeed
ReadSource ==
    /\ conv_pc = "start"
    /\ \E ps \in SourceTexts : conv_text' = Flatten(ps)
    /\ conv_pc' = "read"
    /\ UNCHANGED <<conv_ttl, out_file0, out_file>>
    /\ UNCHANGED <<mapVars, ttlVars, scanVars>>

\* open(ifc_path) or f.read() raises OSError
ReadFails ==
    /\ conv_pc = "start"
    /\ conv_pc' = "read_failed"
    /\ UNCHANGED <<conv_text, conv_ttl, out_file0, out_file>>
    /\ UNCHANGED <<mapVars, ttlVars, scanVars>>

\* scan, parse, map, render
RunPipeline ==
    /\ conv_pc = "read"
    /\ conv_ttl' = Pipeline(conv_text)
    /\ conv_pc' = "rendered"
    /\ UNCHANGED <<conv_text, out_file0, out_file>>
    /\ UNCHANGED <<mapVars, ttlVars, scanVars>>

\* open(ttl_path, "w") succeeds: the file is created or truncated
OpenOutput ==
    /\ conv_pc = "rendered"
    /\ out_file' = FileWith(<<>>)
    /\ conv_pc' = "opened"
    /\ UNCHANGED <<conv_text, conv_ttl, out_file0>>
    /\ UNCHANGED <<mapVars, ttlVars, scanVars>>

\* open(ttl_path, "w") raises OSError: nothing is touched
OpenOutputFails ==
    /\ conv_pc = "rendered"
    /\ conv_pc' = "write_failed"
    /\ UNCHANGED <<conv_text, conv_ttl, out_file0, out_file>>
    /\ UNCHANGED <<mapVars, ttlVars, scanVars>>

\* f.write(ttl_output) and the close of the with block succeed
WriteOutput ==
    /\ conv_pc = "opened"
    /\ out_file' = FileWith(conv_ttl)
    /\ conv_pc' = "done"
    /\ UNCHANGED <<conv_text, conv_ttl, out_file0>>
    /\ UNCHANGED <<mapVars, ttlVars, scanVars>>

\* f.write or the flush at close raises OSError after k pieces of the text
\* reached the file
WriteFails ==
    /\ conv_pc = "opened"
    /\ \E k \in 0 .. Len(conv_ttl) - 1 : out_file' = FileWith(SubSeq(conv_ttl, 1, k))
    /\ conv_pc' = "write_failed"
    /\ UNCHANGED <<conv_text, conv_ttl, out_file0>>
    /\ UNCHANGED <<mapVars, ttlVars, scanVars>>

(* --------------------------- specifications --------------------------- *)

MapIdle ==
    /\ entities = <<>>
    /\ ent_idx = 0
    /\ rel = <<>>
    /\ rel_count = 0
    /\ triples = <<>>
    /\ rel_base = 0
    /\ map_status = "idle"

TtlIdle ==
    /\ ttl_in = <<>>
    /\ lines = <<>>
    /\ by_subject = <<>>
    /\ grp_idx = 0
    /\ st_idx = 0
    /\ ttl_out = <<>>
    /\ ttl_pc = "idle"

ScanIdle ==
    /\ pieces = <<>>
    /\ ifc_text = <<>>
    /\ scan_pos = 1
    /\ selected = <<>>
    /\ parse_idx = 0
    /\ parsed_entities = <<>>
    /\ parsed_relationships = <<>>
    /\ scan_pc = "idle"

ConvIdle ==
    /\ conv_pc = "idle"
    /\ conv_text = <<>>
    /\ conv_ttl = <<>>
    /\ out_file0 = NoFile
    /\ out_file = NoFile

\* ifc_to_bot_triples on every entity mapping and relationship sequence
MapInit == MapStart /\ TtlIdle /\ ScanIdle /\ ConvIdle
MapNext == TypeAndLabel \/ MapRelationship \/ MapReturn
SpecMap == MapInit /\ [][MapNext]_vars

\* triples_to_ttl on every triple sequence
TtlInit == MapIdle /\ TtlStart /\ ScanIdle /\ ConvIdle
TtlNext == GroupTriple \/ RenderStanza \/ TtlReturn
SpecTtl == TtlInit /\ [][TtlNext]_vars

\* scan_ifc_and_extract_lines, then parse_selected_ifc_lines, on every text
ScanInit == MapIdle /\ TtlIdle /\ ScanStart /\ ConvIdle
ScanNext == ScanMatch \/ ScanReturn \/ ParseStep \/ ParseReturn
SpecScan == ScanInit /\ [][ScanNext]_vars

\* one run of convert_ifc_file_to_ttl
ConvInit == MapIdle /\ TtlIdle /\ ScanIdle /\ ConvStart
ConvNext ==
    \/ ReadSource \/ ReadFails \/ RunPipeline
    \/ OpenOutput \/ OpenOutputFails \/ WriteOutput \/ WriteFails
SpecConvert == ConvInit /\ [][ConvNext]_vars

(* ------------------- properties of the mapping engine ----------------- *)

\* the elements of a finite set of naturals, in increasing order
SortedSeq(I) ==
    [k \in 1 .. Cardinality(I) |->
        CHOOSE i \in I : Cardinality({j \in I : j < i}) = k - 1]

\* the classification of an id: what the mapping holds under it
KindOf(id) ==
    IF \E k \in DOMAIN entities :
          entities[k].id = id /\ entities[k].type \in DOMAIN IFC_TO_BOT_ZONE
    THEN "zone"
    ELSE IF \E k \in DOMAIN entities :
          entities[k].id = id /\ entities[k].type \in DOMAIN IFC_TO_BOT_ELEMENT
    THEN "element"
    ELSE "neither"

\* a relationship of the given type has just been mapped
Mapped(type) ==
    /\ map_status \in {"running", "returned"}
    /\ rel_count > 0
    /\ rel.type = type

\* the triples the relationship in rel added to the result
Emitted == SubSeq(triples, rel_base + 1, Len(triples))

\* what a per-child relation type is to emit: for the child positions in
\* hitting, in their order, one triple (parent, Pred, child) each, and nothing
\* else
PerChild(hitting, Pred) ==
    LET kids == rel.child_ids
        hits == SortedSeq(hitting)
    IN  /\ Len(Emitted) = Len(hits)
        /\ \A n \in DOMAIN hits :
              Emitted[n] = <<InstCurie(rel.parent_id), Pred, InstCurie(kids[hits[n]])>>

SameKind(cid) == KindOf(rel.parent_id) = KindOf(cid) /\ KindOf(cid) # "neither"
ZoneOverElement(cid) == KindOf(rel.parent_id) = "zone" /\ KindOf(cid) = "element"

\* C1: an IFCRELAGGREGATES record emits, for each child reference on its own,
\* exactly one triple (parent, p, child) iff parent and child are both zones
\* (p = bot:containsZone) or both elements (p = bot:hasSubElement), and nothing
\* for any other pair, whatever the other children of the record are.
C1_AggregatesSameKind ==
    Mapped("IFCRELAGGREGATES") =>
        PerChild({k \in DOMAIN rel.child_ids : SameKind(rel.child_ids[k])},
                 IF KindOf(rel.parent_id) = "zone"
                 THEN "bot:containsZone" ELSE "bot:hasSubElement")

\* an aggregation with a child that matches its parent and one that does not
C1_Witness ==
    /\ Mapped("IFCRELAGGREGATES")
    /\ \E a, b \in DOMAIN rel.child_ids :
          SameKind(rel.child_ids[a]) /\ ~SameKind(rel.child_ids[b])
    /\ Len(Emitted) > 0

SymmetricTypes == {"IFCRELCONNECTSELEMENTS", "IFCRELINTERFERESELEMENTS"}

\* C2: an IFCRELCONNECTSELEMENTS (IFCRELINTERFERESELEMENTS) record with exactly
\* two child references A, B that are both elements emits exactly (A, p, B) then
\* (B, p, A) with p = bot:adjacentElement (bot:intersectingElement), whatever
\* its parent; with another number of children or a non-element child it emits
\* nothing.
C2_SymmetricPair ==
    (\E t \in SymmetricTypes : Mapped(t)) =>
        LET kids == rel.child_ids
            p == IF rel.type = "IFCRELCONNECTSELEMENTS"
                 THEN "bot:adjacentElement" ELSE "bot:intersectingElement"
        IN  IF /\ Len(kids) = 2
               /\ KindOf(kids[1]) = "element"
               /\ KindOf(kids[2]) = "element"
            THEN Emitted = << <<InstCurie(kids[1]), p, InstCurie(kids[2])>>,
                              <<InstCurie(kids[2]), p, InstCurie(kids[1])>> >>
            ELSE Emitted = <<>>

\* a connection of two distinct elements whose parent is not an element
C2_Witness ==
    /\ Mapped("IFCRELCONNECTSELEMENTS")
    /\ Len(rel.child_ids) = 2
    /\ rel.child_ids[1] # rel.child_ids[2]
    /\ KindOf(rel.child_ids[1]) = "element"
    /\ KindOf(rel.child_ids[2]) = "element"
    /\ Len(Emitted) = 2

\* the name between double quotes, a backslash put before each double quote
\* of the name
ExpectedLabel(name) ==
    LET quotes == {k \in DOMAIN name : name[k] = "\""}
        place(k) == k + Cardinality({q \in quotes : q <= k})
        body == [j \in 1 .. Len(name) + Cardinality(quotes) |->
                    IF \E k \in DOMAIN name : place(k) = j
                    THEN name[CHOOSE k \in DOMAIN name : place(k) = j]
                    ELSE "\\"]
    IN  "\"" \o Str(body) \o "\""

TriplesOf(subj, pred) ==
    {i \in DOMAIN triples : triples[i][1] = subj /\ triples[i][2] = pred}

\* C3: once the entity loop is over, and whatever relationships follow, the
\* result holds for every entity of a zone or element type exactly one
\* (ex:inst_<id>, rdf:type, <mapped class>) and, iff its name is non-empty,
\* exactly one (ex:inst_<id>, rdfs:label, <quoted name>) right after it; for an
\* entity with no class mapping it holds no rdf:type and no rdfs:label triple.
C3_TypeAndLabel ==
    (map_status \in {"running", "returned"} /\ ent_idx = Len(entities)) =>
        \A k \in DOMAIN entities :
            LET e == entities[k]
                subj == InstCurie(e.id)
                types == TriplesOf(subj, "rdf:type")
                labels == TriplesOf(subj, "rdfs:label")
            IN  IF e.type \in DOMAIN IFC_TO_BOT_ZONE \cup DOMAIN IFC_TO_BOT_ELEMENT
                THEN /\ Cardinality(types) = 1
                     /\ \A i \in types :
                           /\ triples[i][3] =
                                 IF e.type \in DOMAIN IFC_TO_BOT_ZONE
                                 THEN IFC_TO_BOT_ZONE[e.type] ELSE "bot:Element"
                           /\ IF e.name # <<>>
                              THEN /\ labels = {i + 1}
                                   /\ triples[i + 1][3] = ExpectedLabel(e.name)
                              ELSE labels = {}
                ELSE types = {} /\ labels = {}

\* the call has returned with a named zone or element, a named entity of the
\* root type, and a relationship that added triples
C3_Witness ==
    /\ map_status = "returned"
    /\ \E k \in DOMAIN entities :
          entities[k].type \in {"IFCSITE", "IFCWALL"} /\ entities[k].name # <<>>
    /\ \E k \in DOMAIN entities :
          entities[k].type = "IFCPROJECT" /\ entities[k].name # <<>>
    /\ rel_count > 0
    /\ Len(Emitted) > 0

\* the ids whose instance identifier is s and that are zones or elements
ClassifiedAs(s) == {id \in Ids : InstCurie(id) = s /\ KindOf(id) # "neither"}

\* C4: ifc_to_bot_triples never raises, and no triple has as subject, or as
\* object of a relationship predicate, the instance identifier of an id that
\* is absent from the mapping or of the root type.
C4_NoUnclassifiedEndpoint ==
    /\ map_status # "raised"
    /\ \A i \in DOMAIN triples :
          /\ ClassifiedAs(triples[i][1]) # {}
          /\ triples[i][2] \notin {"rdf:type", "rdfs:label"}
                => ClassifiedAs(triples[i][3]) # {}

\* the call has returned after a relationship that names an unclassified id
\* next to ids that did produce a triple
C4_Witness ==
    /\ map_status = "returned"
    /\ rel_count > 0
    /\ \E k \in DOMAIN rel.child_ids : KindOf(rel.child_ids[k]) = "neither"
    /\ Len(Emitted) > 0

\* C5: an IFCRELCONTAINEDINSPATIALSTRUCTURE record emits, for each child
\* reference on its own, exactly one (parent, bot:containsElement, child) iff
\* the parent is a zone and the child an element, nothing for any other pair,
\* and no other predicate.
C5_ContainedZoneOverElement ==
    Mapped("IFCRELCONTAINEDINSPATIALSTRUCTURE") =>
        PerChild({k \in DOMAIN rel.child_ids : ZoneOverElement(rel.child_ids[k])},
                 "bot:containsElement")

\* a containment under a zone with an element child and a zone child
C5_Witness ==
    /\ Mapped("IFCRELCONTAINEDINSPATIALSTRUCTURE")
    /\ \E a, b \in DOMAIN rel.child_ids :
          /\ ZoneOverElement(rel.child_ids[a])
          /\ KindOf(rel.child_ids[b]) = "zone"
    /\ Len(Emitted) > 0

(* --------------------- properties of the serializer ------------------- *)

\* the first position of x in s (0: none)
IndexOf(s, x) ==
    IF \E k \in DOMAIN s : s[k] = x
    THEN CHOOSE k \in DOMAIN s : s[k] = x /\ \A j \in 1 .. k - 1 : s[j] # x
    ELSE 0

\* s cut at every x, the cuts left out
RECURSIVE SplitAt(_, _)
SplitAt(s, x) ==
    IF IndexOf(s, x) = 0 THEN <<s>>
    ELSE <<SubSeq(s, 1, IndexOf(s, x) - 1)>>
            \o SplitAt(SubSeq(s, IndexOf(s, x) + 1, Len(s)), x)

\* the lines of the returned text, and those after the prefix block
TextLines == SplitAt(ttl_out, "\n")
BodyLines == SubSeq(TextLines, Len(PrefixBlock) + 1, Len(TextLines))

\* the stanzas read back: the runs of lines that an empty line ends
RECURSIVE ReadStanzas(_)
ReadStanzas(ls) ==
    IF ls = <<>> THEN <<>>
    ELSE IF IndexOf(ls, <<>>) = 0 THEN <<ls>>
    ELSE <<SubSeq(ls, 1, IndexOf(ls, <<>>) - 1)>>
            \o ReadStanzas(SubSeq(ls, IndexOf(ls, <<>>) + 1, Len(ls)))

\* the distinct subjects of ts, ordered by their first appearance
FirstAppearance(ts) ==
    LET firsts == {i \in DOMAIN ts : \A j \in 1 .. i - 1 : ts[j][1] # ts[i][1]}
    IN  [k \in 1 .. Cardinality(firsts) |-> ts[SortedSeq(firsts)[k]][1]]

\* the (p, o) of the triples of ts with subject s, in the order of ts
PairsOf(ts, s) ==
    LET at == SortedSeq({i \in DOMAIN ts : ts[i][1] = s})
    IN  [k \in DOMAIN at |-> <<ts[at[k]][2], ts[at[k]][3]>>]

\* C6: after the prefix block the text holds one stanza per distinct subject,
\* in the order of the subjects' first appearance; a stanza lists that
\* subject's predicate-object pairs in their input order, each pair on a line
\* ended by ';' except the last, which is ended by '.'.
C6_StanzaOrder ==
    ttl_pc = "done" =>
        LET stanzas == ReadStanzas(BodyLines)
            subjects == FirstAppearance(ttl_in)
        IN  /\ SubSeq(TextLines, 1, Len(PrefixBlock)) = PrefixBlock
            /\ Len(stanzas) = Len(subjects)
            /\ \A k \in DOMAIN stanzas :
                  LET want == PairsOf(ttl_in, subjects[k])
                  IN  /\ Len(stanzas[k]) = Len(want) + 1
                      /\ stanzas[k][1] = <<subjects[k]>>
                      /\ \A i \in DOMAIN want :
                            stanzas[k][i + 1] =
                                <<"    ", want[i][1], " ", want[i][2],
                                  IF i < Len(want) THEN " ;" ELSE " .">>

\* a rendered input whose subjects interleave: s, another subject, s again
C6_Witness ==
    /\ ttl_pc = "done"
    /\ Len(ttl_in) >= 3
    /\ ttl_in[1][1] # ttl_in[2][1]
    /\ ttl_in[1][1] = ttl_in[3][1]

\* the triples read back from the stanzas: the subject line with the predicate
\* and the object of each indented line below it
RECURSIVE ReadTriples(_)
ReadTriples(stanzas) ==
    IF stanzas = <<>> THEN <<>>
    ELSE LET st == Head(stanzas)
         IN  [i \in 1 .. Len(st) - 1 |-> <<st[1][1], st[i + 1][2], st[i + 1][4]>>]
                \o ReadTriples(Tail(stanzas))

Count(s, x) == Cardinality({k \in DOMAIN s : s[k] = x})

RemoveAt(s, i) == SubSeq(s, 1, i - 1) \o SubSeq(s, i + 1, Len(s))

\* C9: a malformed record vanishes: the selector's result for a text is its
\* result for the same text without the malformed record, whatever follows it.
C9_MalformedVanishes ==
    scan_pc \in {"parse", "done"} =>
        \A i \in DOMAIN pieces :
            pieces[i] \in MalformedRecords =>
                selected = scan_ifc_and_extract_lines(Flatten(RemoveAt(pieces, i)))

\* the parser has just consumed the line of an entity record
EntityLineParsed ==
    /\ scan_pc = "parse"
    /\ parse_idx > 0
    /\ selected[parse_idx][2] \in
          DOMAIN IFC_TO_BOT_ZONE \cup DOMAIN IFC_TO_BOT_ELEMENT \cup {"IFCPROJECT"}

\* that line's argument text, the entity stored for it, and where the
\* argument text holds single quotes
LineArgs == selected[parse_idx][3]
LineEntity ==
    CHOOSE e \in Range(parsed_entities) : e.id = selected[parse_idx][1]
QuotesOf(a) == SortedSeq({k \in DOMAIN a : a[k] = "'"})

\* the fields are the first two single-quoted literals of a
HoldsFirstTwoLiterals(e, a) ==
    /\ e.global_id = SubSeq(a, QuotesOf(a)[1] + 1, QuotesOf(a)[2] - 1)
    /\ e.name = SubSeq(a, QuotesOf(a)[3] + 1, QuotesOf(a)[4] - 1)

\* a begins with a quoted literal, then optional whitespace, a comma, optional
\* whitespace and a second quoted literal
LeadingPair(a) ==
    LET q == QuotesOf(a)
    IN  /\ Len(q) >= 4
        /\ q[1] = 1
        /\ \E c \in q[2] + 1 .. q[3] - 1 :
              /\ a[c] = ","
              /\ \A j \in (q[2] + 1 .. q[3] - 1) \ {c} : a[j] \in SpaceClass

\* C10 as stated: the entity's (global identifier, name) are the first two
\* single-quoted literals of the argument text wherever they stand, and both
\* are empty only when the text does not hold two such literals.
C10_LiteralsAnywhere ==
    EntityLineParsed =>
        IF Len(QuotesOf(LineArgs)) >= 4
        THEN HoldsFirstTwoLiterals(LineEntity, LineArgs)
        ELSE LineEntity.global_id = <<>> /\ LineEntity.name = <<>>

\* C10 as amended: the entity's (global identifier, name) are the first two
\* single-quoted literals exactly when the argument text begins with them,
\* separated by a comma and optional whitespace only; otherwise both are empty.
C10_LiteralsLeading ==
    EntityLineParsed =>
        IF LeadingPair(LineArgs)
        THEN HoldsFirstTwoLiterals(LineEntity, LineArgs)
        ELSE LineEntity.global_id = <<>> /\ LineEntity.name = <<>>

\* an entity line whose two literals do not lead the argument text
C10_Witness ==
    /\ EntityLineParsed
    /\ Len(QuotesOf(LineArgs)) >= 4
    /\ ~LeadingPair(LineArgs)
    /\ LineEntity.global_id = <<>>
    /\ LineEntity.name = <<>>

(* ------------------ properties of convert_ifc_file_to_ttl ------------- *)

\* C8: a run that aborts on an I/O failure leaves the output file as it was,
\* neither created, truncated nor partly written, and a run that completes
\* has written the whole text, the prefix block at least.
C8_NoPartialOutput ==
    /\ conv_pc \in {"read_failed", "write_failed"} => out_file = out_file0
    /\ conv_pc = "done" =>
          /\ out_file = FileWith(conv_ttl)
          /\ SubSeq(SplitAt(out_file.content, "\n"), 1, Len(PrefixBlock)) = PrefixBlock

====
